---- MODULE Spec2Model ----
(***************************************************************************)
(* Slotted ALOHA simulator: src/pages/Slotted_Aloha.py.                    *)
(*                                                                         *)
(* simulate_slotted_aloha(num_nodes, p, num_slots) is modelled one loop    *)
(* iteration per step, the CSV export (DataFrame.to_csv) as a step after   *)
(* the return, and get_theoretical_throughput as an operator applied by    *)
(* its own step.                                                           *)
(*                                                                         *)
(* Reals are kept on a grid: a probability or a uniform draw is k/Scale,   *)
(* held as the integer k.  np.random.random yields draws in [0, 1), that   *)
(* is k in 0..Scale-1; p = 0 is P = 0 and p = 1 is P = Scale.              *)
(***************************************************************************)
EXTENDS Integers, Sequences, FiniteSets, TLC

\* Bounds of the model.
MaxNodes == 3
MaxSlots == 3
Scale == 2
MaxLoad == 3
MaxLoads == 3

None == "None"

VARIABLES
    pc,                       \* "idle", "loop", "returned", "exported", "raised"
    num_nodes, p, num_slots,  \* the arguments of the running call
    slot,                     \* the loop variable of line 66
    random_sample,            \* np.random.random(num_nodes) of the last slot run
    slots_data,
    successful_transmissions,
    collisions,
    idle_slots,
    statistics,               \* <<the returned dictionary>>, <<>> before the return
    exception,                \* the exception that ended the call, None otherwise
    csv,                      \* the exported text, empty before the export
    prev,                     \* history: <<the previous run>>, <<>> when none
    curve                     \* <<the last call of get_theoretical_throughput>>

vars == <<pc, num_nodes, p, num_slots, slot, random_sample, slots_data,
          successful_transmissions, collisions, idle_slots, statistics,
          exception, csv, prev, curve>>

----------------------------------------------------------------------------
(* The values the callers may pass.  The page's sliders keep them valid, but
   the function itself takes any number; the invalid ones next to the valid
   range are included. *)
NodeArgs == -1 .. MaxNodes
ProbArgs == -1 .. Scale + 1
SlotArgs == -1 .. MaxSlots

\* The values np.random.random can return: k/Scale in [0, 1).
Uniform == 0 .. Scale - 1

\* np.random.random(n) for n >= 0: every array of n draws is possible.
RandomArrays(n) == [1 .. n -> Uniform]

----------------------------------------------------------------------------
(* Line 68: np.random.random(num_nodes) < p, element by element. *)
LessThanPMutant(u, prob) == [i \in DOMAIN u |-> u[i] <= prob]

LessThanP(u, prob) == [i \in DOMAIN u |-> u[i] < prob]

(* Line 69: np.sum of a boolean array. *)
RECURSIVE SumFrom(_, _)
SumFrom(b, i) ==
    IF i > Len(b) THEN 0
    ELSE (IF b[i] THEN 1 ELSE 0) + SumFrom(b, i + 1)

np_sumMutant(b) == IF Len(b) > 1 THEN SumFrom(b, 1) + 1 ELSE SumFrom(b, 1)

np_sum(b) == SumFrom(b, 1)

(* Lines 71-78: the status of a slot. *)
StatusOfMutant(num_transmissions) ==
    IF num_transmissions = 0 THEN "Idle"
    ELSE IF num_transmissions <= 2 THEN "Success"
    ELSE "Collision"

StatusOf(num_transmissions) ==
    IF num_transmissions = 0 THEN "Idle"
    ELSE IF num_transmissions = 1 THEN "Success"
    ELSE "Collision"

(* Lines 73, 76, 79: the three counters after a slot of the given status. *)
IdleAfterMutant(status, n) == n + 1

IdleAfter(status, n) == IF status = "Idle" THEN n + 1 ELSE n

SuccessAfter(status, n) == IF status = "Success" THEN n + 1 ELSE n

CollisionsAfterMutant(status, n) == n

CollisionsAfter(status, n) == IF status = "Collision" THEN n + 1 ELSE n

(* Line 66: range(num_slots) has a next value after `done` iterations. *)
RangeHasNextMutant(done, n) == done < n - 1

RangeHasNext(done, n) == done < n

(* Lines 84-100.  A quotient is kept exact as <<numerator, denominator>>;
   1/e is kept as a symbol. *)
Statistics(succ, coll, idle, nodes, prob, slots) ==
    [ successful      |-> succ,
      collisions      |-> coll,
      idle            |-> idle,
      throughput      |-> <<succ, slots>>,
      theoretical_max |-> "1/e",
      offered_load    |-> <<nodes * prob, Scale>>,
      efficiency      |-> [throughput |-> <<succ, slots>>, over |-> "1/e",
                           times |-> 100] ]

----------------------------------------------------------------------------
Init ==
    /\ pc = "idle"
    /\ num_nodes = 0 /\ p = 0 /\ num_slots = 0
    /\ slot = 0
    /\ random_sample = <<>>
    /\ slots_data = <<>>
    /\ successful_transmissions = 0
    /\ collisions = 0
    /\ idle_slots = 0
    /\ statistics = <<>>
    /\ exception = None
    /\ csv = <<>>
    /\ prev = <<>>
    /\ curve = <<>>

(* Lines 53-64: the call binds the arguments and clears the locals.  Nothing
   is validated. *)
Call ==
    /\ pc = "idle"
    /\ \E n \in NodeArgs, prob \in ProbArgs, s \in SlotArgs :
         /\ num_nodes' = n
         /\ p' = prob
         /\ num_slots' = s
    /\ slot' = 0
    /\ random_sample' = <<>>
    /\ slots_data' = <<>>
    /\ successful_transmissions' = 0
    /\ collisions' = 0
    /\ idle_slots' = 0
    /\ pc' = "loop"
    /\ UNCHANGED <<statistics, exception, csv, prev, curve>>

(* Lines 66-81: one iteration of the loop.  The draws come from numpy's
   process-wide generator, which the function neither receives nor seeds. *)
LoopIter ==
    /\ pc = "loop"
    /\ RangeHasNext(slot, num_slots)
    /\ num_nodes >= 0
    /\ \E u \in RandomArrays(num_nodes) :
         LET transmitting_nodes == LessThanP(u, p)
             num_transmissions == np_sum(transmitting_nodes)
             status == StatusOf(num_transmissions)
         IN  /\ random_sample' = u
             /\ idle_slots' = IdleAfter(status, idle_slots)
             /\ successful_transmissions' =
                    SuccessAfter(status, successful_transmissions)
             /\ collisions' = CollisionsAfter(status, collisions)
             /\ slots_data' = Append(slots_data,
                    [slot |-> slot, num_transmissions |-> num_transmissions,
                     status |-> status])
    /\ slot' = slot + 1
    /\ UNCHANGED <<pc, num_nodes, p, num_slots, statistics, exception, csv,
                   prev, curve>>

(* Line 68 with num_nodes < 0: np.random.random raises ValueError
   ("negative dimensions are not allowed") in the first iteration. *)
RaiseValueError ==
    /\ pc = "loop"
    /\ RangeHasNext(slot, num_slots)
    /\ num_nodes < 0
    /\ pc' = "raised"
    /\ exception' = "ValueError"
    /\ UNCHANGED <<num_nodes, p, num_slots, slot, random_sample, slots_data,
                   successful_transmissions, collisions, idle_slots,
                   statistics, csv, prev, curve>>

(* Line 84 with num_slots = 0: the loop body never ran and 0 / 0 raises
   ZeroDivisionError. *)
RaiseZeroDivisionError ==
    /\ pc = "loop"
    /\ ~RangeHasNext(slot, num_slots)
    /\ num_slots = 0
    /\ pc' = "raised"
    /\ exception' = "ZeroDivisionError"
    /\ UNCHANGED <<num_nodes, p, num_slots, slot, random_sample, slots_data,
                   successful_transmissions, collisions, idle_slots,
                   statistics, csv, prev, curve>>

(* Lines 84-102: the loop is over, the statistics are built and returned. *)
Return ==
    /\ pc = "loop"
    /\ ~RangeHasNext(slot, num_slots)
    /\ num_slots # 0
    /\ statistics' = << Statistics(successful_transmissions, collisions,
                                   idle_slots, num_nodes, p, num_slots) >>
    /\ pc' = "returned"
    /\ UNCHANGED <<num_nodes, p, num_slots, slot, random_sample, slots_data,
                   successful_transmissions, collisions, idle_slots,
                   exception, csv, prev, curve>>

----------------------------------------------------------------------------
(* Text is a sequence of one-character strings. *)
DigitChar == <<"0", "1", "2", "3", "4", "5", "6", "7", "8", "9">>

\* str(n) of an integer, as the CSV writer formats a cell of an integer column.
RECURSIVE FormatNat(_)
FormatNat(n) ==
    IF n < 10 THEN <<DigitChar[n + 1]>>
    ELSE FormatNat(n \div 10) \o <<DigitChar[(n % 10) + 1]>>

FormatInt(n) == IF n < 0 THEN <<"-">> \o FormatNat(-n) ELSE FormatNat(n)

\* The characters of a status string (lines 72, 75, 78) and of a column name.
StatusText(status) ==
    CASE status = "Idle" -> <<"I", "d", "l", "e">>
      [] status = "Success" -> <<"S", "u", "c", "c", "e", "s", "s">>
      [] status = "Collision" -> <<"C", "o", "l", "l", "i", "s", "i", "o", "n">>

ColumnText(name) ==
    CASE name = "Slot" -> <<"S", "l", "o", "t">>
      [] name = "Transmissions" -> <<"T", "r", "a", "n", "s", "m", "i", "s", "s", "i", "o", "n", "s">>
      [] name = "Status" -> <<"S", "t", "a", "t", "u", "s">>

\* ",".join(cells) + "\n"
RECURSIVE JoinCells(_)
JoinCells(cells) ==
    IF Len(cells) = 0 THEN <<"\n">>
    ELSE IF Len(cells) = 1 THEN cells[1] \o <<"\n">>
    ELSE cells[1] \o <<",">> \o JoinCells(Tail(cells))

RECURSIVE Concat(_)
Concat(lines) ==
    IF Len(lines) = 0 THEN <<>> ELSE lines[1] \o Concat(Tail(lines))

(* Line 254: pd.DataFrame(slots_data, columns=['Slot', 'Transmissions',
   'Status']): one row per tuple, in list order, under a RangeIndex. *)
DataFrame(data, columns) ==
    [ columns |-> columns,
      index   |-> [i \in 1 .. Len(data) |-> i - 1],
      rows    |-> [i \in 1 .. Len(data) |->
                     <<data[i].slot, data[i].num_transmissions,
                       data[i].status>>] ]

\* DataFrame.to_csv: the header line, then one line per row; with_index
\* writes the index as a first, unnamed column.
CsvText(df, with_index) ==
    LET header == [i \in 1 .. Len(df.columns) |-> ColumnText(df.columns[i])]
        cells(i) == <<FormatInt(df.rows[i][1]), FormatInt(df.rows[i][2]),
                      StatusText(df.rows[i][3])>>
        line(i) == IF with_index
                   THEN JoinCells(<<FormatInt(df.index[i])>> \o cells(i))
                   ELSE JoinCells(cells(i))
        head == IF with_index THEN JoinCells(<<<<>>>> \o header)
                ELSE JoinCells(header)
    IN  head \o Concat([i \in 1 .. Len(df.rows) |-> line(i)])

to_csvMutant(df) == CsvText(df, TRUE)

(* Line 255: df.to_csv(index=False). *)
to_csv(df) == CsvText(df, FALSE)

(* Lines 253-255: the export of the returned trace. *)
Export ==
    /\ pc = "returned"
    /\ csv' = to_csv(DataFrame(slots_data, <<"Slot", "Transmissions", "Status">>))
    /\ pc' = "exported"
    /\ UNCHANGED <<num_nodes, p, num_slots, slot, random_sample, slots_data,
                   successful_transmissions, collisions, idle_slots,
                   statistics, exception, prev, curve>>

(* The page is run again (a new click on "Run Simulation", line 110): the
   results of the last run are dropped and the function may be called anew. *)
Cleared ==
    /\ pc' = "idle"
    /\ num_nodes' = 0 /\ p' = 0 /\ num_slots' = 0
    /\ slot' = 0
    /\ random_sample' = <<>>
    /\ slots_data' = <<>>
    /\ successful_transmissions' = 0
    /\ collisions' = 0
    /\ idle_slots' = 0
    /\ statistics' = <<>>
    /\ exception' = None
    /\ csv' = <<>>

Rerun ==
    /\ pc \in {"exported", "raised"}
    /\ Cleared
    /\ UNCHANGED <<prev, curve>>

(* The same step, with the finished run remembered so that two runs can be
   compared. *)
RerunRemember ==
    /\ pc \in {"exported", "raised"}
    /\ prev = <<>>
    /\ prev' = << [ args |-> <<num_nodes, p, num_slots>>,
                    outcome |-> pc,
                    slots_data |-> slots_data,
                    statistics |-> statistics,
                    exception |-> exception ] >>
    /\ Cleared
    /\ UNCHANGED curve

Next ==
    \/ Call
    \/ LoopIter
    \/ RaiseValueError
    \/ RaiseZeroDivisionError
    \/ Return
    \/ Export
    \/ Rerun

Spec == Init /\ [][Next]_vars

(* A call runs to completion: the function is synchronous and nothing can
   suspend it between two iterations. *)
RunStep == LoopIter \/ RaiseValueError \/ RaiseZeroDivisionError \/ Return

FairSpec == Spec /\ WF_vars(RunStep)

NextTwoRuns ==
    \/ Call
    \/ LoopIter
    \/ RaiseValueError
    \/ RaiseZeroDivisionError
    \/ Return
    \/ Export
    \/ RerunRemember

SpecTwoRuns == Init /\ [][NextTwoRuns]_vars

----------------------------------------------------------------------------
(* np.exp on the integer grid, in thousandths: round(1000 * e^x). *)
ExpMilli(x) ==
    CASE x = -5 -> 7 [] x = -4 -> 18 [] x = -3 -> 50 [] x = -2 -> 135
      [] x = -1 -> 368 [] x = 0 -> 1000 [] x = 1 -> 2718 [] x = 2 -> 7389

(* Lines 105-107: G_values * np.exp(-G_values), element by element.  Nothing
   is checked and nothing raises. *)
get_theoretical_throughput(G_values) ==
    [i \in DOMAIN G_values |-> G_values[i] * ExpMilli(-G_values[i])]

\* The load arrays a caller may pass, the negative load -1 included.
LoadArrays == UNION {[1 .. n -> -1 .. MaxLoad] : n \in 0 .. MaxLoads}

(* Line 155: a call of get_theoretical_throughput. *)
CurveCall ==
    /\ \E G_values \in LoadArrays :
         curve' = << [ G_values |-> G_values,
                       outcome  |-> "returned",
                       result   |-> get_theoretical_throughput(G_values) ] >>
    /\ UNCHANGED <<pc, num_nodes, p, num_slots, slot, random_sample,
                   slots_data, successful_transmissions, collisions,
                   idle_slots, statistics, exception, csv, prev>>

NextCurve == CurveCall

SpecCurve == Init /\ [][NextCurve]_vars

----------------------------------------------------------------------------
(* Vocabulary of the properties. *)
ValidArgs == num_nodes >= 1 /\ p \in 0 .. Scale /\ num_slots >= 1

Started == pc \in {"loop", "returned", "exported"}

Done == pc \in {"returned", "exported"}

Entries == 1 .. Len(slots_data)

CountStatus(status) ==
    Cardinality({i \in Entries : slots_data[i].status = status})

----------------------------------------------------------------------------
(* C1: for valid parameters, when the run has returned, successCount +
   collisionCount + idleCount equals slotCount. *)
C1_Conservation ==
    (Done /\ ValidArgs) =>
        statistics[1].successful + statistics[1].collisions + statistics[1].idle
            = num_slots

C1_Witness ==
    /\ Done /\ ValidArgs /\ num_slots >= 3
    /\ statistics[1].successful >= 1
    /\ statistics[1].collisions >= 1
    /\ statistics[1].idle >= 1

(* C2: every entry of the trace is Idle iff nobody transmitted, Success iff
   exactly one node did, Collision iff two or more did; entries with the same
   transmitter count have the same status. *)
C2_Classification ==
    Started =>
        /\ \A i \in Entries :
             LET e == slots_data[i]
             IN  /\ e.status \in {"Idle", "Success", "Collision"}
                 /\ (e.status = "Idle") <=> (e.num_transmissions = 0)
                 /\ (e.status = "Success") <=> (e.num_transmissions = 1)
                 /\ (e.status = "Collision") <=> (e.num_transmissions >= 2)
        /\ \A i, j \in Entries :
             slots_data[i].num_transmissions = slots_data[j].num_transmissions
                 => slots_data[i].status = slots_data[j].status

C2_Witness ==
    /\ Done
    /\ \E i, j, k \in Entries :
         /\ slots_data[i].num_transmissions = 0 /\ slots_data[i].status = "Idle"
         /\ slots_data[j].num_transmissions = 1 /\ slots_data[j].status = "Success"
         /\ slots_data[k].num_transmissions = 2 /\ slots_data[k].status = "Collision"

(* C3: a call with num_nodes < 1, p outside [0, 1] or num_slots < 1 fails with
   InvalidParameter before any slot is simulated: no draw is made, no entry
   is appended, no statistics are returned. *)
C3_InvalidParameterRejected ==
    (pc # "idle" /\ ~ValidArgs) =>
        /\ ~Done
        /\ slots_data = <<>>
        /\ slot = 0
        /\ (pc = "raised" => exception = "InvalidParameter")

(* C4: the draws are supplied by the caller, so two runs that agree in
   everything the caller supplied produce the same trace and the same
   statistics. *)
C4_CallerSuppliedDeterminism ==
    ( /\ Len(prev) = 1
      /\ pc = "exported"
      /\ prev[1].outcome = "exported"
      /\ prev[1].args = <<num_nodes, p, num_slots>> )
    => /\ prev[1].slots_data = slots_data
       /\ prev[1].statistics = statistics

(* C5: for valid parameters the run terminates, and its trace has exactly
   num_slots entries with slot = 0, 1, ..., num_slots - 1 in this order; each
   step of the loop appends exactly one entry and there is no early exit. *)
C5_Shape ==
    Started =>
        /\ Len(slots_data) = slot
        /\ \A i \in Entries : slots_data[i].slot = i - 1
        /\ (ValidArgs => Len(slots_data) <= num_slots)
        /\ ((Done /\ ValidArgs) => Len(slots_data) = num_slots)

C5_Step ==
    (pc = "loop") =>
        \/ slots_data' = slots_data
        \/ /\ Len(slots_data') = Len(slots_data) + 1
           /\ SubSeq(slots_data', 1, Len(slots_data)) = slots_data

C5_TraceComplete ==
    /\ []C5_Shape
    /\ [][C5_Step]_vars
    /\ ((pc = "loop" /\ ValidArgs) ~> Done)

C5_Witness ==
    /\ Done /\ ValidArgs /\ num_slots >= 3
    /\ Len(slots_data) = num_slots
    /\ slots_data[num_slots].slot = num_slots - 1

(* C6: with p = 0 every slot is Idle with no transmitter and no success is
   counted; with p = 1 and at least two nodes every slot is a Collision of all
   the nodes and no success is counted. *)
C6_Degenerate ==
    (Started /\ ValidArgs) =>
        /\ (p = 0) =>
             /\ \A i \in Entries : /\ slots_data[i].status = "Idle"
                                   /\ slots_data[i].num_transmissions = 0
             /\ successful_transmissions = 0
             /\ Done => (statistics[1].successful = 0
                         /\ statistics[1].throughput[1] = 0)
        /\ (p = Scale /\ num_nodes >= 2) =>
             /\ \A i \in Entries :
                  /\ slots_data[i].status = "Collision"
                  /\ slots_data[i].num_transmissions = num_nodes
             /\ successful_transmissions = 0
             /\ Done => statistics[1].successful = 0

C6_Witness ==
    /\ Done /\ ValidArgs /\ p = Scale /\ num_nodes >= 2 /\ num_slots >= 2
    /\ Len(slots_data) = num_slots
    /\ statistics[1].collisions = num_slots

(* C7: for valid parameters every slot's transmitter count is in
   0 .. num_nodes and is the number of the slot's draws that are below p;
   with one node no slot is a Collision and every slot with a transmission
   is a Success. *)
C7_TransmitterCount ==
    (Started /\ ValidArgs) =>
        /\ \A i \in Entries :
             slots_data[i].num_transmissions \in 0 .. num_nodes
        /\ Len(slots_data) >= 1 =>
             /\ DOMAIN random_sample = 1 .. num_nodes
             /\ slots_data[Len(slots_data)].num_transmissions =
                  Cardinality({n \in 1 .. num_nodes : random_sample[n] < p})
        /\ num_nodes = 1 =>
             \A i \in Entries :
                /\ slots_data[i].status # "Collision"
                /\ slots_data[i].num_transmissions >= 1
                      => slots_data[i].status = "Success"

C7_Witness ==
    /\ Done /\ ValidArgs /\ num_nodes = 1 /\ p \in 1 .. Scale - 1
    /\ \E i, j \in Entries : /\ slots_data[i].status = "Success"
                             /\ slots_data[j].status = "Idle"

(* Reading the exported text back: lines end in "\n", cells are separated by
   ",", a number is a string of decimal digits. *)
RECURSIVE SplitFrom(_, _, _, _)
SplitFrom(text, sep, i, cell) ==
    IF i > Len(text) THEN <<cell>>
    ELSE IF text[i] = sep
         THEN <<cell>> \o SplitFrom(text, sep, i + 1, <<>>)
         ELSE SplitFrom(text, sep, i + 1, Append(cell, text[i]))

Split(text, sep) == SplitFrom(text, sep, 1, <<>>)

\* Every line of the text ends in "\n": the part after the last one is empty.
LinesOf(text) ==
    LET parts == Split(text, "\n") IN SubSeq(parts, 1, Len(parts) - 1)

IsDigits(cell) ==
    /\ Len(cell) >= 1
    /\ \A i \in 1 .. Len(cell) : \E d \in 0 .. 9 : DigitChar[d + 1] = cell[i]

RECURSIVE ParseDigits(_, _, _)
ParseDigits(cell, i, acc) ==
    IF i > Len(cell) THEN acc
    ELSE ParseDigits(cell, i + 1,
             10 * acc + (CHOOSE d \in 0 .. 9 : DigitChar[d + 1] = cell[i]))

StatusLiterals ==
    [ Idle      |-> <<"I", "d", "l", "e">>,
      Success   |-> <<"S", "u", "c", "c", "e", "s", "s">>,
      Collision |-> <<"C", "o", "l", "l", "i", "s", "i", "o", "n">> ]

HeaderLiteral == <<"S", "l", "o", "t", ",", "T", "r", "a", "n", "s", "m", "i", "s", "s", "i", "o", "n", "s", ",", "S", "t", "a", "t", "u", "s">>

IsRow(cells) ==
    /\ Len(cells) = 3
    /\ IsDigits(cells[1])
    /\ IsDigits(cells[2])
    /\ \E status \in DOMAIN StatusLiterals : StatusLiterals[status] = cells[3]

ParseRow(cells) ==
    [ slot |-> ParseDigits(cells[1], 1, 0),
      num_transmissions |-> ParseDigits(cells[2], 1, 0),
      status |-> CHOOSE status \in DOMAIN StatusLiterals :
                    StatusLiterals[status] = cells[3] ]

(* C8: the exported text is the header line Slot,Transmissions,Status and one
   line per entry of the trace, in trace order, with the status written as
   Idle, Success or Collision; reading the text back gives the trace. *)
C8_ExportRoundTrip ==
    (pc = "exported") =>
        LET lines == LinesOf(csv)
            rows == [i \in 1 .. Len(lines) - 1 |-> Split(lines[i + 1], ",")]
        IN  /\ Len(csv) >= 1 /\ csv[Len(csv)] = "\n"
            /\ Len(lines) = Len(slots_data) + 1
            /\ lines[1] = HeaderLiteral
            /\ \A i \in 1 .. Len(rows) : IsRow(rows[i])
            /\ [i \in 1 .. Len(rows) |-> ParseRow(rows[i])] = slots_data

C8_Witness ==
    /\ pc = "exported"
    /\ slots_data =
         << [slot |-> 0, num_transmissions |-> 0, status |-> "Idle"],
            [slot |-> 1, num_transmissions |-> 1, status |-> "Success"],
            [slot |-> 2, num_transmissions |-> 3, status |-> "Collision"] >>
    /\ csv = HeaderLiteral \o <<"\n">>
               \o <<"0", ",", "0", ",", "I", "d", "l", "e", "\n">>
               \o <<"1", ",", "1", ",", "S", "u", "c", "c", "e", "s", "s", "\n">>
               \o <<"2", ",", "3", ",", "C", "o", "l", "l", "i", "s", "i", "o", "n", "\n">>

(* C9: get_theoretical_throughput rejects an array holding a negative load
   with an error, and for an array of non-negative loads it returns one
   output per input, in the order of the inputs. *)
C9_NegativeLoadRejected ==
    \A i \in 1 .. Len(curve) :
        LET call == curve[i]
            negative == \E k \in DOMAIN call.G_values : call.G_values[k] < 0
        IN  /\ negative => call.outcome = "raised"
            /\ ~negative =>
                 /\ call.outcome = "returned"
                 /\ DOMAIN call.result = DOMAIN call.G_values
                 /\ \A k \in DOMAIN call.G_values :
                      call.result[k] =
                          call.G_values[k] * ExpMilli(-call.G_values[k])

(* C10: the counters are a fold of the trace: after every slot each counter
   is the number of entries of its status, the returned statistics carry
   these counters, and a slot adds 1 to the counter of its status and leaves
   the other two as they were. *)
C10_Fold ==
    Started =>
        /\ idle_slots = CountStatus("Idle")
        /\ successful_transmissions = CountStatus("Success")
        /\ collisions = CountStatus("Collision")
        /\ Done => /\ statistics[1].idle = CountStatus("Idle")
                   /\ statistics[1].successful = CountStatus("Success")
                   /\ statistics[1].collisions = CountStatus("Collision")

C10_Step ==
    (pc = "loop" /\ slots_data' # slots_data) =>
        LET status == slots_data'[Len(slots_data')].status
            inc(s) == IF status = s THEN 1 ELSE 0
        IN  /\ idle_slots' = idle_slots + inc("Idle")
            /\ successful_transmissions' =
                   successful_transmissions + inc("Success")
            /\ collisions' = collisions + inc("Collision")
            /\ inc("Idle") + inc("Success") + inc("Collision") = 1

C10_StatisticsFold == []C10_Fold /\ [][C10_Step]_vars

C10_Witness ==
    /\ Done /\ ValidArgs
    /\ statistics[1].idle = 1
    /\ statistics[1].successful = 1
    /\ statistics[1].collisions = 1
    /\ slots_data[1].status = "Collision"
    /\ slots_data[3].status = "Idle"

====
